---- MODULE Spec2Model ----
(***************************************************************************)
(* A model of the vunk lexer (vunk-lexer/src/lib.rs).                      *)
(*                                                                         *)
(* lexer() is a chumsky parser over a stream of characters.  The model     *)
(* keeps the stream as a sequence of one-character strings and a cursor    *)
(* `pos` (a 0-based offset, as in the Rust spans), and runs the outermost  *)
(* `repeated()` loop one iteration at a time.  Each combinator of the      *)
(* source is an operator that says where it ends when started at an        *)
(* offset, or that it fails there.                                         *)
(***************************************************************************)
EXTENDS Integers, Sequences, FiniteSets, TLC

(***************************************************************************)
(* Characters                                                              *)
(***************************************************************************)
Lower == {"a", "b", "c", "d", "e", "f", "g", "h", "i", "j", "k", "l", "m",
          "n", "o", "p", "q", "r", "s", "t", "u", "v", "w", "x", "y", "z"}
Upper == {"A", "B", "C", "D", "E", "F", "G", "H", "I", "J", "K", "L", "M",
          "N", "O", "P", "Q", "R", "S", "T", "U", "V", "W", "X", "Y", "Z"}
Digits == {"0", "1", "2", "3", "4", "5", "6", "7", "8", "9"}

\* a test for blanks that forgets the line breaks
InlineWhitespace == {" ", "\t"}

\* char::is_whitespace, the test of padded()
Whitespace == {" ", "\t", "\n", "\r"}

\* first character of ident(): ASCII letter, '_' or '$'
IdentStart == Lower \cup Upper \cup {"_", "$"}
\* following characters of ident(): ASCII alphanumeric or '_'
IdentCont == Lower \cup Upper \cup Digits \cup {"_"}

(***************************************************************************)
(* Stream helpers.  Offsets are 0-based: At(s, p) is the character at      *)
(* offset p, and an offset of Len(s) is the end of the input.              *)
(***************************************************************************)
At(s, p) == s[p + 1]

Min(S) == CHOOSE x \in S : \A y \in S : x <= y
Max(S) == CHOOSE x \in S : \A y \in S : y <= x

\* filter(|c| c in C).repeated() started at p: the offset after the longest
\* run of characters of the class C
RunEnd(s, p, C) ==
    Min({e \in p..Len(s) : e = Len(s) \/ At(s, e) \notin C})

\* just(lit) started at p
Just(s, p, lit) ==
    /\ p + Len(lit) <= Len(s)
    /\ \A i \in 1..Len(lit) : s[p + i] = lit[i]

\* the offset at which just(lit), started at p, meets a character that is
\* not the expected one (or the end of the input)
JustFailAt(s, p, lit) ==
    p + Max({k \in 0..Len(lit) :
                /\ p + k <= Len(s)
                /\ \A i \in 1..k : s[p + i] = lit[i]})

(***************************************************************************)
(* Tokens.  A token is [kind, text]: the enum variant and its payload      *)
(* (empty for a variant without one; "true"/"false" for Bool).            *)
(***************************************************************************)
Tok(k, t) == [kind |-> k, text |-> t]

NoMatch == [ok |-> FALSE, tok |-> Tok("None", <<>>), end |-> 0]
Match(k, t, e) == [ok |-> TRUE, tok |-> Tok(k, t), end |-> e]

\* text::int(10): a non-zero digit and then any digits, or one '0'
int(s, p) ==
    IF At(s, p) = "0" THEN p + 1 ELSE RunEnd(s, p + 1, Digits)

\* num: int, then optionally '.' and one or more digits (or_not rewinds
\* when no digit follows the dot)
num(s, p) ==
    IF p < Len(s) /\ At(s, p) \in Digits
    THEN LET ie == int(s, p)
             fe == IF /\ ie < Len(s)
                      /\ At(s, ie) = "."
                      /\ RunEnd(s, ie + 1, Digits) > ie + 1
                   THEN RunEnd(s, ie + 1, Digits)
                   ELSE ie
         IN  Match("Num", SubSeq(s, p + 1, fe), fe)
    ELSE NoMatch

\* the offsets of the double quotes after offset p
QuotesAfter(s, p) == {q \in (p + 1)..(Len(s) - 1) : At(s, q) = "\""}

\* str_: '"', any characters but '"', '"'; the payload excludes the quotes
str_(s, p) ==
    IF p < Len(s) /\ At(s, p) = "\"" /\ QuotesAfter(s, p) # {}
    THEN LET q == Min(QuotesAfter(s, p))
         IN  Match("Str", SubSeq(s, p + 2, q), q + 1)
    ELSE NoMatch

\* the keyword alternatives of `token`, in the order of the or-chain
Keywords ==
    << [lit |-> <<"u", "s", "e">>,           tok |-> Tok("Use", <<>>)],
       [lit |-> <<"p", "u", "b">>,           tok |-> Tok("Pub", <<>>)],
       [lit |-> <<"-", ">">>,                tok |-> Tok("Arrow", <<>>)],
       [lit |-> <<"l", "e", "t">>,           tok |-> Tok("Let", <<>>)],
       [lit |-> <<"i", "n">>,                tok |-> Tok("In", <<>>)],
       [lit |-> <<"i", "f">>,                tok |-> Tok("If", <<>>)],
       [lit |-> <<"t", "h", "e", "n">>,      tok |-> Tok("Then", <<>>)],
       [lit |-> <<"e", "l", "s", "e">>,      tok |-> Tok("Else", <<>>)],
       [lit |-> <<"t", "r", "u", "e">>,
        tok |-> Tok("Bool", <<"t", "r", "u", "e">>)],
       [lit |-> <<"f", "a", "l", "s", "e">>,
        tok |-> Tok("Bool", <<"f", "a", "l", "s", "e">>)],
       [lit |-> <<"w", "h", "e", "r", "e">>, tok |-> Tok("Where", <<>>)],
       [lit |-> <<"m", "a", "t", "c", "h">>, tok |-> Tok("Match", <<>>)],
       [lit |-> <<"w", "h", "e", "n">>,      tok |-> Tok("When", <<>>)],
       [lit |-> <<"i", "m", "p", "l">>,      tok |-> Tok("Impl", <<>>)],
       [lit |-> <<"t", "y", "p", "e">>,      tok |-> Tok("Type", <<>>)],
       [lit |-> <<"e", "n", "u", "m">>,      tok |-> Tok("Enum", <<>>)],
       [lit |-> <<"m", "o", "d">>,           tok |-> Tok("Mod", <<>>)] >>

\* kw_use.or(kw_pub). ... .or(kw_mod): the first alternative that matches
keyword(s, p) ==
    LET hits == {i \in 1..Len(Keywords) : Just(s, p, Keywords[i].lit)}
    IN  IF hits = {} THEN NoMatch
        ELSE LET k == Keywords[Min(hits)]
             IN  [ok |-> TRUE, tok |-> k.tok, end |-> p + Len(k.lit)]

\* one_of("(),=:+.;[]{}|")
CtrlChars == {"(", ")", ",", "=", ":", "+", ".", ";", "[", "]", "{", "}", "|"}

ctrl(s, p) ==
    IF p < Len(s) /\ At(s, p) \in CtrlChars
    THEN Match("Ctrl", <<At(s, p)>>, p + 1)
    ELSE NoMatch

\* the alternatives of `operator`, in the order of the or-chain
Operators ==
    << <<"+">>, <<"-">>, <<"*">>, <<"/">>, <<"%">>, <<"=", "=">>,
       <<"!", "=">>, <<"<">>, <<"<", "=">>, <<">">>, <<">", "=">>,
       <<"&">>, <<"&", "&">>, <<"|">>, <<"|", "|">>, <<"^">>, <<"+", "+">> >>

\* op_add.or(op_sub). ... .or(op_join): the first alternative that matches
operator(s, p) ==
    LET hits == {i \in 1..Len(Operators) : Just(s, p, Operators[i])}
    IN  IF hits = {} THEN NoMatch
        ELSE LET lit == Operators[Min(hits)]
             IN  Match("Op", lit, p + Len(lit))

\* ident(): one start character, then the longest run of following ones
ident(s, p) ==
    IF p < Len(s) /\ At(s, p) \in IdentStart
    THEN LET e == RunEnd(s, p + 1, IdentCont)
         IN  Match("Ident", SubSeq(s, p + 1, e), e)
    ELSE NoMatch

\* token = num.or(str_).or(kw_use) ... .or(ctrl).or(operator).or(ident):
\* ordered choice, the first alternative that succeeds wins
token(s, p) ==
    IF num(s, p).ok THEN num(s, p)
    ELSE IF str_(s, p).ok THEN str_(s, p)
    ELSE IF keyword(s, p).ok THEN keyword(s, p)
    ELSE IF ctrl(s, p).ok THEN ctrl(s, p)
    ELSE IF operator(s, p).ok THEN operator(s, p)
    ELSE ident(s, p)

\* where the error of a failed `token` points: the furthest offset any
\* alternative reached before it failed (str_ fails at the end of the
\* input when the closing quote is missing)
TokenErrAt(s, p) ==
    Max({p}
        \cup {JustFailAt(s, p, Keywords[i].lit) : i \in 1..Len(Keywords)}
        \cup {JustFailAt(s, p, Operators[i]) : i \in 1..Len(Operators)}
        \cup (IF p < Len(s) /\ At(s, p) = "\"" THEN {Len(s)} ELSE {}))

(***************************************************************************)
(* Trivia: whitespace and comments around a token.                         *)
(***************************************************************************)
NoComment == [ok |-> FALSE, end |-> 0]

\* the offsets of the newlines at or after offset p
NewlinesFrom(s, p) == {q \in p..(Len(s) - 1) : At(s, q) = "\n"}

\* comment = just("#").then(take_until(just('\n'))).padded(): whitespace, '#',
\* everything up to and including the next newline, whitespace.  take_until
\* fails when the input ends before a newline.
comment(s, p) ==
    LET h == RunEnd(s, p, Whitespace)
    IN  IF h < Len(s) /\ At(s, h) = "#" /\ NewlinesFrom(s, h + 1) # {}
        THEN [ok |-> TRUE,
              end |-> RunEnd(s, Min(NewlinesFrom(s, h + 1)) + 1, Whitespace)]
        ELSE NoComment

\* comment.repeated()
RECURSIVE comments(_, _)
comments(s, p) ==
    IF comment(s, p).ok THEN comments(s, comment(s, p).end) ELSE p

\* what padded() and padded_by(comment.repeated()) consume before the token
Leading(s, p) == comments(s, RunEnd(s, p, Whitespace))

\* what padded_by(comment.repeated()) and padded() consume after the token
Trailing(s, e) == RunEnd(s, comments(s, e), Whitespace)

\* a span whose end is taken one past the offset at which the parser ended
map_with_span_inclusive(tok, from, to) ==
    [tok |-> tok, span |-> [start |-> from, end |-> to + 1]]

\* map_with_span(|tok, span| (tok, span)): the span runs from the offset at
\* which the mapped parser (token with its recovery) started to the offset
\* at which it ended
map_with_span(tok, from, to) ==
    [tok |-> tok, span |-> [start |-> from, end |-> to]]

(***************************************************************************)
(* Recovery and the outer loop.                                            *)
(***************************************************************************)
\* a strategy that drops the rest of the input instead of one character
SkipToEnd(s, p) == Len(s)

\* skip_then_retry_until([]): on each round the strategy skips one input and
\* retries `token` there; with no `until` character it gives up only at the
\* end of the input
Skip(s, p) == p + 1

\* repeated(): no minimum number of items
AtLeast == 0

\* the output of repeated() when an item fails after n items were collected
repeated(n) == IF n < AtLeast THEN "Err" ELSE "Ok"

(***************************************************************************)
(* Inputs of the model: every string over a few small alphabets, the       *)
(* examples the specification gives, and a few longer texts.               *)
(***************************************************************************)
MaxIdentLen == 5
MaxOpLen == 3
MaxNumLen == 5
MaxMixLen == 5

IdentAlphabet == {"i", "n", "f", "_"}
OpAlphabet == {"<", ">", "=", "!", "&", "|", "+", "-"}
NumAlphabet == {"0", "7", "."}
MixAlphabet == {"a", "@", " ", "\"", "#", "\n"}

Strs(A, n) == UNION {[1..k -> A] : k \in 0..n}

Examples ==
    { <<"i", "n", "d", "e", "x">>,
      <<"l", "e", "t", " ", "x", " ", "=", " ", "1", " ", "@", " ", "i", "n",
        " ", "x">>,
      <<"l", "e", "t", " ", "x", " ", "=", " ", "1", " ", "#", " ", "c", "o",
        "m", "m", "e", "n", "t", "\n", "i", "n", " ", "x">>,
      <<"4", "2">>,
      <<"3", ".", "1", "4">>,
      <<"3", ".">>,
      <<"0", "0", "7">>,
      <<"\"", "a", "b", "c", "\"">>,
      <<"\"", "a", "b", "c">>,
      <<"1", " ", "#", " ", "i", "n">>,
      <<"1", " ", "@">>,
      <<"@", " ", "x">>,
      <<"x", " ", "=", " ", "\"", "a", " ", "#", "b", "\"", " ", "#", " ", "c",
        " ", "\"", "\n", "i", "n">> }

Inputs ==
    Strs(IdentAlphabet, MaxIdentLen) \cup Strs(OpAlphabet, MaxOpLen)
    \cup Strs(NumAlphabet, MaxNumLen) \cup Strs(MixAlphabet, MaxMixLen)
    \cup Examples

(***************************************************************************)
(* The state of one run of lexer().parse_recovery(input)                   *)
(***************************************************************************)
VARIABLES
    input,    \* the source text
    pos,      \* the stream's offset
    mark,     \* the offset repeated() saved before the item it is parsing
    start,    \* the offset at which `token` (and its span) started
    tokens,   \* the (Token, Span) pairs collected by repeated()
    errors,   \* the offsets of the errors collected so far
    aErr,     \* the error of the failed `token`, kept by the recovery
    pc,       \* "item": before an item; "recover": in the strategy; "done"
    result    \* "Pending", then what repeated() returns: "Ok" or "Err"

vars == <<input, pos, mark, start, tokens, errors, aErr, pc, result>>

Init ==
    /\ input \in Inputs
    /\ pos = 0
    /\ mark = 0
    /\ start = 0
    /\ tokens = <<>>
    /\ errors = <<>>
    /\ aErr = 0
    /\ pc = "item"
    /\ result = "Pending"

\* `token` matches where the padding before it ends
TokenAhead == token(input, Leading(input, pos)).ok

\* the strategy has an input left to skip, and `token` matches after it
RetryAhead == token(input, Skip(input, pos)).ok

\* one iteration of repeated() in which `token` matches where the padding
\* ends: the token is pushed with its span and the trailing padding consumed
CanParseToken == pc = "item" /\ TokenAhead

ParseToken ==
    /\ CanParseToken
    /\ LET p == Leading(input, pos)
           r == token(input, p)
       IN  /\ tokens' = Append(tokens, map_with_span(r.tok, p, r.end))
           /\ pos' = Trailing(input, r.end)
    /\ UNCHANGED <<input, mark, start, errors, aErr, pc, result>>

\* `token` fails where the padding ends: recover_with rewinds to where
\* `token` started and hands its error to the strategy
CanTokenFail == pc = "item" /\ ~TokenAhead

TokenFails ==
    /\ CanTokenFail
    /\ LET p == Leading(input, pos)
       IN  /\ mark' = pos
           /\ start' = p
           /\ pos' = p
           /\ aErr' = TokenErrAt(input, p)
    /\ pc' = "recover"
    /\ UNCHANGED <<input, tokens, errors, result>>

\* a round of the strategy that skips one input and finds a token there: the
\* token is pushed, with the span map_with_span measures from where the
\* failed `token` started, and the kept error is recorded
CanSkipRetryOk == pc = "recover" /\ pos < Len(input) /\ RetryAhead

SkipRetryOk ==
    /\ CanSkipRetryOk
    /\ LET r == token(input, Skip(input, pos))
       IN  /\ tokens' = Append(tokens, map_with_span(r.tok, start, r.end))
           /\ pos' = Trailing(input, r.end)
    /\ errors' = Append(errors, aErr)
    /\ pc' = "item"
    /\ UNCHANGED <<input, mark, start, aErr, result>>

\* a round of the strategy that skips one input and finds no token there
CanSkipRetryFail == pc = "recover" /\ pos < Len(input) /\ ~RetryAhead

SkipRetryFail ==
    /\ CanSkipRetryFail
    /\ pos' = Skip(input, pos)
    /\ UNCHANGED <<input, mark, start, tokens, errors, aErr, pc, result>>

\* the strategy reaches the end of the input: the item fails, its error is
\* dropped, repeated() rewinds to before the item and returns what it has
CanRecoveryFail == pc = "recover" /\ pos = Len(input)

RecoveryFails ==
    /\ CanRecoveryFail
    /\ pos' = mark
    /\ pc' = "done"
    /\ result' = repeated(Len(tokens))
    /\ UNCHANGED <<input, mark, start, tokens, errors, aErr>>

\* some step of the scan can be taken
CanStep ==
    \/ CanParseToken
    \/ CanTokenFail
    \/ CanSkipRetryOk
    \/ CanSkipRetryFail
    \/ CanRecoveryFail

Next ==
    \/ ParseToken
    \/ TokenFails
    \/ SkipRetryOk
    \/ SkipRetryFail
    \/ RecoveryFails

Spec == Init /\ [][Next]_vars

(***************************************************************************)
(* lexer() as a function of the input: the (Token, Span) pairs and the     *)
(* error offsets of a whole run, computed by the same rounds as the        *)
(* actions above.                                                          *)
(***************************************************************************)
\* the offsets after p at which the strategy's retry of `token` succeeds
RetryHits(s, p) == {q \in (p + 1)..(Len(s) - 1) : token(s, q).ok}

RECURSIVE LexFrom(_, _, _, _)
LexFrom(s, p0, toks, errs) ==
    LET p == Leading(s, p0)
        r == token(s, p)
    IN  IF r.ok
        THEN LexFrom(s, Trailing(s, r.end),
                     Append(toks, map_with_span(r.tok, p, r.end)), errs)
        ELSE IF RetryHits(s, p) = {}
        THEN [toks |-> toks, errs |-> errs]
        ELSE LET rr == token(s, Min(RetryHits(s, p)))
             IN  LexFrom(s, Trailing(s, rr.end),
                         Append(toks, map_with_span(rr.tok, p, rr.end)),
                         Append(errs, TokenErrAt(s, p)))

Lex(s) == LexFrom(s, 0, <<>>, <<>>)

\* the tokens of a run without their spans
TokensOf(toks) == [i \in 1..Len(toks) |-> toks[i].tok]

\* impl Display for Token: the text a token is written as
Display(tok) ==
    CASE tok.kind = "Arrow" -> <<"-", ">">>
      [] tok.kind = "Else" -> <<"e", "l", "s", "e">>
      [] tok.kind = "If" -> <<"i", "f">>
      [] tok.kind = "Then" -> <<"t", "h", "e", "n">>
      [] tok.kind = "In" -> <<"i", "n">>
      [] tok.kind = "Let" -> <<"l", "e", "t">>
      [] tok.kind = "Use" -> <<"u", "s", "e">>
      [] tok.kind = "Pub" -> <<"p", "u", "b">>
      [] tok.kind = "Where" -> <<"w", "h", "e", "r", "e">>
      [] tok.kind = "Match" -> <<"m", "a", "t", "c", "h">>
      [] tok.kind = "When" -> <<"w", "h", "e", "n">>
      [] tok.kind = "Type" -> <<"t", "y", "p", "e">>
      [] tok.kind = "Impl" -> <<"i", "m", "p", "l">>
      [] tok.kind = "Enum" -> <<"e", "n", "u", "m">>
      [] tok.kind = "Mod" -> <<"m", "o", "d">>
      [] OTHER -> tok.text

(***************************************************************************)
(* What the specification says of an input, independently of the lexer.    *)
(***************************************************************************)
\* the source text at a span
Sub(s, span) == SubSeq(s, span.start + 1, span.end)

\* the blanks of the specification
Blank == {" ", "\t", "\n", "\r"}

\* a character that starts no token rule and is no trivia
StartsNoRule(c) ==
    c \notin IdentStart \cup Digits \cup CtrlChars \cup Blank
             \cup {"\"", "#", "!", "-", "*", "/", "%", "<", ">", "&", "^"}

\* A pass over the text by the specification's rules: whitespace and
\* newline-terminated comments are trivia, a string runs to its closing
\* quote, every other character belongs to a token.  `keep` lists the
\* offsets of the characters that belong to tokens; `ok` is false when the
\* text holds an invalid character, an unclosed string, a comment without
\* its newline, or a '!' that starts no "!=".
RECURSIVE ScanFrom(_, _, _)
ScanFrom(s, p, keep) ==
    IF p >= Len(s) THEN [ok |-> TRUE, keep |-> keep]
    ELSE LET c == At(s, p)
             bad == [ok |-> FALSE, keep |-> keep]
         IN  CASE c \in Blank -> ScanFrom(s, p + 1, keep)
               [] c = "#" ->
                    IF NewlinesFrom(s, p + 1) = {} THEN bad
                    ELSE ScanFrom(s, Min(NewlinesFrom(s, p + 1)) + 1, keep)
               [] c = "\"" ->
                    IF QuotesAfter(s, p) = {} THEN bad
                    ELSE LET q == Min(QuotesAfter(s, p))
                         IN  ScanFrom(s, q + 1,
                                 keep \o [i \in 1..(q + 1 - p) |-> p + i - 1])
               [] c = "!" ->
                    IF p + 1 < Len(s) /\ At(s, p + 1) = "="
                    THEN ScanFrom(s, p + 2, keep \o <<p, p + 1>>)
                    ELSE bad
               [] StartsNoRule(c) -> bad
               [] OTHER -> ScanFrom(s, p + 1, Append(keep, p))

Scan(s) == ScanFrom(s, 0, <<>>)

\* only well-formed tokens, whitespace and newline-terminated comments
WellFormed(s) == Scan(s).ok

\* the text with the characters at offsets from..(to - 1) removed
Remove(s, from, to) == SubSeq(s, 1, from) \o SubSeq(s, to + 1, Len(s))

\* offset k is outside every string and comment, after well-formed text
Outside(s, k) == WellFormed(SubSeq(s, 1, k))

\* the offsets the spans cover, in output order
RECURSIVE Covered(_)
Covered(toks) ==
    IF toks = <<>> THEN <<>>
    ELSE LET sp == toks[1].span
         IN  [i \in 1..(sp.end - sp.start) |-> sp.start + i - 1]
             \o Covered(Tail(toks))

(***************************************************************************)
(* C1  keyword boundary                                                    *)
(***************************************************************************)
IsIdentLexeme(s) ==
    /\ Len(s) >= 1
    /\ s[1] \in IdentStart
    /\ \A i \in 2..Len(s) : s[i] \in IdentCont

ReservedWord(s) == \E i \in 1..Len(Keywords) : Keywords[i].lit = s

WordToken(s) ==
    IF ReservedWord(s)
    THEN Keywords[CHOOSE i \in 1..Len(Keywords) : Keywords[i].lit = s].tok
    ELSE Tok("Ident", s)

\* C1: an input that is one maximal identifier lexeme lexes to exactly one
\* token: the keyword token when the whole lexeme is a reserved word, and
\* otherwise Ident carrying the whole lexeme ("index" is Ident("index")).
C1_KeywordBoundary ==
    (pc = "done" /\ IsIdentLexeme(input))
        => TokensOf(tokens) = <<WordToken(input)>>

(***************************************************************************)
(* C2  longest-match operators                                             *)
(***************************************************************************)
TwoCharOps ==
    { <<"<", "=">>, <<"=", "=">>, <<"!", "=">>, <<">", "=">>, <<"&", "&">>,
      <<"|", "|">>, <<"+", "+">>, <<"-", ">">> }

\* C2: each of "<=", "==", "!=", ">=", "&&", "||", "++" and "->" lexes to
\* exactly one token that spans both characters: Op with that text, Arrow
\* for "->".
C2_LongestMatch ==
    (pc = "done" /\ input \in TwoCharOps)
        => /\ Len(tokens) = 1
           /\ tokens[1].span = [start |-> 0, end |-> 2]
           /\ tokens[1].tok = IF input = <<"-", ">">>
                              THEN Tok("Arrow", <<>>)
                              ELSE Tok("Op", input)

(***************************************************************************)
(* C3  recovery from one invalid character                                 *)
(***************************************************************************)
\* the offsets of invalid characters that stand between well-formed texts
InvalidOffsets(s) ==
    {k \in 0..(Len(s) - 1) :
        /\ StartsNoRule(At(s, k))
        /\ Outside(s, k)
        /\ WellFormed(SubSeq(s, k + 2, Len(s)))}

\* C3: for an input that is well-formed but for one invalid character, at
\* any offset (first, middle, next to a token, last), the tokens are those
\* of the input with that character deleted, and exactly one diagnostic is
\* recorded, at that character's offset.
C3_SkipInvalidChar ==
    pc = "done"
        => \A k \in InvalidOffsets(input) :
              /\ TokensOf(tokens) = TokensOf(Lex(Remove(input, k, k + 1)).toks)
              /\ errors = <<k>>

(***************************************************************************)
(* C4  comments                                                            *)
(***************************************************************************)
\* the offsets of the '#' that start a comment
CommentOffsets(s) ==
    {k \in 0..(Len(s) - 1) : At(s, k) = "#" /\ Outside(s, k)}

\* where the comment that starts at k ends: at its newline, or at the end of
\* the input when its line is the last one
CommentEnd(s, k) ==
    IF NewlinesFrom(s, k) = {} THEN Len(s) ELSE Min(NewlinesFrom(s, k))

\* C4: every comment, from a '#' outside a string up to but excluding the
\* next newline, also one on a last line without a newline, is discarded:
\* the tokens are those of the input with the comment text removed, and no
\* diagnostic points into the comment.
C4_CommentDiscarded ==
    pc = "done"
        => \A k \in CommentOffsets(input) :
              /\ TokensOf(tokens)
                   = TokensOf(Lex(Remove(input, k, CommentEnd(input, k))).toks)
              /\ \A i \in 1..Len(errors) :
                    errors[i] \notin k..(CommentEnd(input, k) - 1)

(***************************************************************************)
(* C5  unterminated strings                                                *)
(***************************************************************************)
\* the offsets of the double quotes that open a string and are never closed
UnclosedQuotes(s) ==
    {k \in 0..(Len(s) - 1) :
        At(s, k) = "\"" /\ Outside(s, k) /\ QuotesAfter(s, k) = {}}

\* C5: when a double quote has no closing quote before the end of the input
\* (nothing, only whitespace, or further text follows it), no Str token is
\* emitted for it and a diagnostic is recorded.
C5_UnterminatedString ==
    pc = "done"
        => \A k \in UnclosedQuotes(input) :
              /\ \A i \in 1..Len(tokens) :
                    ~(/\ tokens[i].tok.kind = "Str"
                      /\ k \in tokens[i].span.start..(tokens[i].span.end - 1))
              /\ errors # <<>>

(***************************************************************************)
(* C6  numeric literals                                                    *)
(***************************************************************************)
\* the end of the longest match, from offset p, of one or more digits
\* optionally followed by '.' and one or more digits
MaximalNumEnd(s, p) ==
    LET d == RunEnd(s, p, Digits)
    IN  IF d < Len(s) /\ At(s, d) = "." /\ RunEnd(s, d + 1, Digits) > d + 1
        THEN RunEnd(s, d + 1, Digits)
        ELSE d

\* C6: where a digit starts the input, the first token is one Num whose text
\* is the longest match of digits, optionally '.' and digits: "007" is
\* Num("007"), "3.14" is Num("3.14"), and "3." is Num("3") then Ctrl('.').
C6_NumMaximalMatch ==
    (pc = "done" /\ Len(input) > 0 /\ input[1] \in Digits)
        => /\ Len(tokens) >= 1
           /\ LET e == MaximalNumEnd(input, 0)
              IN  /\ tokens[1]
                       = map_with_span(Tok("Num", SubSeq(input, 1, e)), 0, e)
                  /\ (e < Len(input) /\ At(input, e) = "."
                        => /\ Len(tokens) >= 2
                           /\ tokens[2].tok = Tok("Ctrl", <<".">>))

(***************************************************************************)
(* C7  span monotonicity                                                   *)
(***************************************************************************)
\* C7: in output order the spans are non-empty, start at strictly increasing
\* offsets and do not overlap: each starts at or after the end of the one
\* before it.  It holds at every point of the scan, with or without recovery.
C7_SpansIncrease ==
    \A i \in 1..Len(tokens) :
        /\ tokens[i].span.start < tokens[i].span.end
        /\ tokens[i].span.end <= Len(input)
        /\ i > 1 => /\ tokens[i - 1].span.end <= tokens[i].span.start
                    /\ tokens[i - 1].span.start < tokens[i].span.start

\* a finished scan that recovered from an error and returned several tokens
C7_Witness ==
    /\ pc = "done"
    /\ Len(tokens) >= 2
    /\ errors # <<>>
    /\ \E i \in 2..Len(tokens) : tokens[i - 1].span.end = tokens[i].span.start

(***************************************************************************)
(* C8  round trip                                                          *)
(***************************************************************************)
\* C8: for an input of well-formed tokens, whitespace and newline-terminated
\* comments, the spans cover, in output order and each once, exactly the
\* characters that are no trivia: the source text at the spans, joined, is
\* the input without the whitespace between tokens and the comments.
C8_RoundTrip ==
    (pc = "done" /\ WellFormed(input))
        => /\ Covered(tokens) = Scan(input).keep
           /\ errors = <<>>

\* a finished scan of a well-formed input with a comment, whitespace, a
\* string and other tokens
C8_Witness ==
    /\ pc = "done"
    /\ WellFormed(input)
    /\ CommentOffsets(input) # {}
    /\ Len(tokens) >= 3
    /\ \E i \in 1..Len(tokens) : tokens[i].tok.kind = "Str"
    /\ Len(Covered(tokens)) < Len(input)

(***************************************************************************)
(* C9  termination and best-effort output                                  *)
(***************************************************************************)
\* what is left of the scan: the input after the cursor, and within one
\* offset the steps from "item" over "recover" to "done"
Measure ==
    IF pc = "done" THEN 0
    ELSE 2 * (Len(input) - pos) + (IF pc = "item" THEN 2 ELSE 1)

\* C9: every scan ends (each step lowers a measure that is never negative,
\* and a scan that has not returned can take a step); each round that emits
\* a token or skips an input moves the cursor forward; the scan ends by
\* returning its token sequence (never a failure without one), and it ends
\* only where no token can be recognised at or after the offset of the
\* error it stopped at.
C9_ScanCompletes ==
    /\ [][Measure' < Measure]_vars
    /\ [](Measure >= 0)
    /\ [](pc # "done" => CanStep)
    /\ [][(ParseToken \/ SkipRetryOk \/ SkipRetryFail) => pos' > pos]_vars
    /\ [](pc = "done"
            => /\ result = "Ok"
               /\ \A q \in start..(Len(input) - 1) : ~token(input, q).ok)

\* a finished scan that recovered from two errors and went on to emit tokens
C9_Witness ==
    /\ pc = "done"
    /\ result = "Ok"
    /\ Len(errors) >= 2
    /\ Len(tokens) >= 2
    /\ start > errors[1]

(***************************************************************************)
(* C10  a span covers the token's own lexeme                               *)
(***************************************************************************)
\* the source text of a token: its text, a string's payload in its quotes
Lexeme(tok) ==
    IF tok.kind = "Str" THEN <<"\"">> \o tok.text \o <<"\"">>
    ELSE Display(tok)

\* C10: for every input, recovery included, the source text at each token's
\* span is that token's own lexeme: no skipped character and no whitespace
\* before the token is part of it.
C10_SpanIsLexeme ==
    \A i \in 1..Len(tokens) : Sub(input, tokens[i].span) = Lexeme(tokens[i].tok)

====
